---- MODULE Spec2Model ----
(***************************************************************************)
(* The capsule isolation engine of scopes/component/isolator               *)
(* (IsolatorMain.isolateComponents and the functions it calls), as a state *)
(* machine over the isolation root on disk and one run's local data.       *)
(***************************************************************************)
EXTENDS Naturals, Sequences, FiniteSets, TLC

(* ------------------------------------------------------------------ *)
(* The component universe the collaborators answer about.              *)
(* ------------------------------------------------------------------ *)

\* The node list of the graph the Graph Builder returns, in its own order.
GraphNodes == <<"A", "B", "C">>

CompIds == {GraphNodes[i] : i \in 1..Len(GraphNodes)}

\* Edges of the dependency graph: A -> B (runtime), A -> C (extension), B -> C (dev).
Successors == [A |-> {"B", "C"}, B |-> {"C"}, C |-> {}]

\* consumerComponent.dependencies / devDependencies / extensions of each component.
BitDependencies == [A |-> {"B"}, B |-> {}, C |-> {}]
BitDevDependencies == [A |-> {}, B |-> {"C"}, C |-> {}]
BitExtensionDependencies == [A |-> {"C"}, B |-> {}, C |-> {}]

\* The version of each component id; "" is an id without a version.
CompVersion == [A |-> "1.0.0", B |-> "2.0.0", C |-> ""]

\* External libraries each component declares.
ExternalPackages == [A |-> {<<"L", "^2.0.0">>}, B |-> {}, C |-> {}]

\* The seed lists a caller passes.
SeedLists == {<<"A">>, <<"B">>, <<"B", "A">>}

\* The sets of components the Component Host can know.
HostSets == {{"A", "B", "C"}, {"A", "C"}, {"B", "C"}, {"B"}}

(* ------------------------------------------------------------------ *)
(* Package manifests (package.json).                                    *)
(* ------------------------------------------------------------------ *)

\* One section of a manifest: missing from the object, or a name -> version map
\* kept as a set of pairs.
AbsentSection == [present |-> FALSE, entries |-> {}]
Section(entries) == [present |-> TRUE, entries |-> entries]

EmptyJson ==
    [dependencies |-> AbsentSection, devDependencies |-> AbsentSection,
     peerDependencies |-> AbsentSection, version |-> "", extra |-> {}]

\* A manifest file on disk: missing, unparsable, or a JSON object.
NoFile == [kind |-> "none", json |-> EmptyJson]
CorruptFile == [kind |-> "corrupt", json |-> EmptyJson]
JsonFile(json) == [kind |-> "json", json |-> json]

\* Object.assign({}, section, added): keys of added replace those of section.
AssignSection(section, added) ==
    Section({p \in section.entries : \A q \in added : q[1] # p[1]} \cup added)

DEPENDENCIES_FIELDS == <<"dependencies", "devDependencies", "peerDependencies">>

newVersion == "0.0.1-new"

componentIdToPackageName == [A |-> "@bit/a", B |-> "@bit/b", C |-> "@bit/c"]

\* getBitDependencies, lines 413-424: package name -> version or placeholder.
getBitDependencies(dependencies) ==
    {<<componentIdToPackageName[d],
       IF CompVersion[d] # "" THEN CompVersion[d] ELSE newVersion>> : d \in dependencies}

\* The manifest the component writer persists for component c when the ids in
\* allIds are written in the same run (ignoreBitDependencies: allIds).
WrittenPackageJson(c, allIds) ==
    [dependencies |->
        Section(ExternalPackages[c] \cup getBitDependencies(BitDependencies[c] \ allIds)),
     devDependencies |-> Section(getBitDependencies(BitDevDependencies[c] \ allIds)),
     peerDependencies |-> AbsentSection,
     version |-> CompVersion[c],
     extra |-> {}]

\* PackageJsonFile.addDependencies / addDevDependencies / addOrUpdateProperty.
addDependencies(json, deps) ==
    [json EXCEPT !.dependencies = AssignSection(json.dependencies, deps)]
addDevDependencies(json, deps) ==
    [json EXCEPT !.devDependencies = AssignSection(json.devDependencies, deps)]
addOrUpdateVersion(json, v) == [json EXCEPT !.version = v]

\* getCurrentPackageJson, lines 409-445, on the manifest loaded from the capsule.
getCurrentPackageJson(c, loaded) ==
    LET bitDependencies == getBitDependencies(BitDependencies[c])
        bitDevDependencies == getBitDependencies(BitDevDependencies[c])
        bitExtensionDependencies == getBitDependencies(BitExtensionDependencies[c])
        withDeps == addDependencies(loaded, bitDependencies)
        withDev == addDevDependencies(withDeps,
                       bitDevDependencies \cup bitExtensionDependencies)
    IN  addOrUpdateVersion(withDev, IF CompVersion[c] # "" THEN CompVersion[c] ELSE newVersion)

\* ramda equals: deep structural equality.
equals(a, b) == a = b

\* previousPackageJson is null or an object; currentPackageJson undefined or an object.
NullJson == [isNull |-> TRUE, json |-> EmptyJson]
ParsedJson(json) == [isNull |-> FALSE, json |-> json]
Undefined == [defined |-> FALSE, json |-> EmptyJson]
Defined(json) == [defined |-> TRUE, json |-> json]

\* wereDependenciesInPackageJsonChanged comparing the whole manifests.
wereDependenciesInPackageJsonChanged_wholeObject(capsuleWithPackageData) ==
    \/ capsuleWithPackageData.previousPackageJson.isNull
    \/ ~equals(capsuleWithPackageData.previousPackageJson.json,
               capsuleWithPackageData.currentPackageJson.json)

\* wereDependenciesInPackageJsonChanged, lines 374-379.
wereDependenciesInPackageJsonChanged(capsuleWithPackageData) ==
    LET previousPackageJson == capsuleWithPackageData.previousPackageJson
        currentPackageJson == capsuleWithPackageData.currentPackageJson
    IN  IF previousPackageJson.isNull THEN TRUE
        ELSE \E i \in 1..Len(DEPENDENCIES_FIELDS) :
                ~equals(previousPackageJson.json[DEPENDENCIES_FIELDS[i]],
                        currentPackageJson.json[DEPENDENCIES_FIELDS[i]])

(* ------------------------------------------------------------------ *)
(* The isolation root on disk.                                          *)
(* ------------------------------------------------------------------ *)

\* A capsule directory: its manifest file, the source tree in it, and the links
\* the symlink steps put into it.
EmptyDir == [manifest |-> NoFile, src |-> "", depLinks |-> FALSE, bitBin |-> FALSE]

EmptyDisk == [p \in {} |-> EmptyDir]

\* fs.ensureDir of one capsule directory (idempotent).
EnsureDir(d, p) ==
    IF p \in DOMAIN d THEN d
    ELSE [q \in DOMAIN d \cup {p} |-> IF q = p THEN EmptyDir ELSE d[q]]

\* The root directory itself: whether it exists, an unrelated file in it, the shared
\* dependency tree an install leaves, and the capsules linked at the root.
NoRoot == [exists |-> FALSE, stray |-> FALSE, nodeModules |-> FALSE, links |-> {}]
EmptyRoot == [exists |-> TRUE, stray |-> FALSE, nodeModules |-> FALSE, links |-> {}]

\* The capsule directory of component c: the component identifier, with a
\* suffix when alwaysNew asks for a fresh directory (0 is no suffix).
CapsulePath(c, suffix) == <<c, suffix>>

(* ------------------------------------------------------------------ *)
(* What an earlier process can have left under the isolation root.      *)
(* ------------------------------------------------------------------ *)

\* The manifest a full run leaves in the capsule of component c.
FinalPackageJson(c) == getCurrentPackageJson(c, WrittenPackageJson(c, CompIds))

\* The manifest file found in a capsule before the run, by how it relates to
\* the manifest the run will compute.
PreviousFile(c, variant) ==
    LET m == FinalPackageJson(c) IN
    CASE variant = "nomanifest" -> NoFile
      [] variant = "corrupt" -> CorruptFile
      [] variant = "same" -> JsonFile(m)
      [] variant = "other" ->
            JsonFile([m EXCEPT !.version = "0.0.9", !.extra = {"scripts"}])
      [] variant = "deps" ->
            JsonFile([m EXCEPT !.dependencies = Section({<<"L", "^1.0.0">>})])
      [] variant = "dev" ->
            JsonFile([m EXCEPT !.devDependencies = Section({<<"T", "^3.0.0">>})])
      [] variant = "peer" ->
            JsonFile([m EXCEPT !.peerDependencies = Section({<<"R", "^1.0.0">>})])

PreviousDir(c, variant) ==
    [manifest |-> PreviousFile(c, variant),
     src |-> IF variant = "nomanifest" THEN "" ELSE "old",
     depLinks |-> variant \notin {"nomanifest", "corrupt"},
     bitBin |-> variant \notin {"nomanifest", "corrupt"}]

Variants == {"nomanifest", "corrupt", "same", "other", "deps", "dev", "peer"}

\* Which capsule directories exist before the run, and in which variant.
Scenarios ==
    {[c \in CompIds |-> v] : v \in Variants \cup {"missing"}}
    \cup {[A |-> "same", B |-> "deps", C |-> "nomanifest"],
          [A |-> "other", B |-> "peer", C |-> "missing"]}

ScenarioDisk(sc) ==
    [p \in {CapsulePath(c, 0) : c \in {x \in CompIds : sc[x] # "missing"}} |->
        PreviousDir(p[1], sc[p[1]])]

PopulatedRoot(sc) ==
    [exists |-> TRUE, stray |-> TRUE,
     nodeModules |-> \E c \in CompIds : sc[c] \notin {"missing", "nomanifest"},
     links |-> {c \in CompIds : sc[c] \notin {"missing", "nomanifest", "corrupt"}}]

(* ------------------------------------------------------------------ *)
(* State.                                                               *)
(* ------------------------------------------------------------------ *)

VARIABLES
    hostIds,      \* the component ids the Component Host has
    disk,         \* capsule path -> capsule directory, for the directories that exist
    rootDir,      \* the isolation root directory itself
    uuid,         \* how many random suffixes were drawn so far
    pc,           \* where the run of isolateComponents stands
    seeders,      \* isolateComponents' seeders
    opts,         \* isolateComponents' opts
    compsAndDeps, \* createGraph: the nodes of the successors subgraph
    results,      \* the settled promises of the batch awaited by Promise.all
    components,   \* componentsToIsolate
    capsules,     \* createCapsules: the capsules, as their paths, one per component
    data,         \* capsulesWithPackagesData
    modified,     \* linkInCapsules: capsulesWithModifiedPackageJson
    calls,        \* how often the run wiped, created, wrote, installed, linked, rewrote
    linkArgs,     \* the capsules handed to each linking step
    installed,    \* the manifest entries the installer added, per capsule path
    returnedAt,   \* the return statement createCapsules left through
    network,      \* the Network isolateComponents returned
    error,        \* the error isolateComponents threw
    history,      \* the calls of isolateComponents that ended before this one
    before,       \* the isolation root as it was when the call was made
    baseDir,      \* opts.baseDir of the caller's opts object, "" while it is unset
    capsulesDir,  \* createCapsules: capsulesDir
    installArgs,  \* the arguments of the installer's install
    rewritten,    \* the capsules whose manifest the final rewrite wrote
    listResult,   \* what the last call of list returned or threw
    envPath,      \* legacy Environment: this.path
    consumer,     \* legacy Environment: whether this.consumer is set
    envFs,        \* the directories an Environment works in
    envPc,        \* where the call of isolateComponent stands
    envOpts,      \* isolateComponent's opts
    writeToPath,  \* isolateComponent: writeToPath
    stoppedAt,    \* the statement at which the call threw or was interrupted
    envError,     \* the error isolateComponent threw
    isolations,   \* how many calls of isolateComponent were made
    markedBefore  \* the installed directories when isolateComponent was called

vars == <<hostIds, disk, rootDir, uuid, pc, seeders, opts, compsAndDeps, results,
          components, capsules, data, modified, calls, linkArgs, installed,
          returnedAt, network, error, history, before, baseDir, capsulesDir,
          installArgs, rewritten, listResult, envPath, consumer, envFs, envPc,
          envOpts, writeToPath, stoppedAt, envError, isolations, markedBefore>>

isolatorVars ==
    <<hostIds, disk, rootDir, uuid, pc, seeders, opts, compsAndDeps, results,
      components, capsules, data, modified, calls, linkArgs, installed, returnedAt,
      network, error, history, before, baseDir, capsulesDir, installArgs, rewritten,
      listResult>>
envVars ==
    <<envPath, consumer, envFs, envPc, envOpts, writeToPath, stoppedAt, envError,
      isolations, markedBefore>>

diskVars == <<disk, rootDir, uuid>>
runVars == <<compsAndDeps, results, components, capsules, data, modified, linkArgs,
             installed, returnedAt, network, error, capsulesDir, installArgs, rewritten>>

Options ==
    [seedersOnly : BOOLEAN, emptyRootDir : BOOLEAN, skipIfExists : BOOLEAN,
     getExistingAsIs : BOOLEAN, alwaysNew : BOOLEAN, installPackages : BOOLEAN]

NoResults == [i \in {} |-> FALSE]
NoCalls ==
    [wipe |-> 0, mkdir |-> 0, write |-> 0, install |-> 0, link |-> 0, symlinkRoot |-> 0,
     symlinkDependencies |-> 0, symlinkBitBin |-> 0, rewrite |-> 0]
NoLinkArgs == [linker |-> {}, root |-> {}, dependencies |-> {}, bitBin |-> {}]
NoDir == <<>>
NoNetwork == [returned |-> FALSE, capsules |-> <<>>, seeders |-> <<>>, root |-> NoDir]
NoInstallArgs == [dir |-> NoDir, policy |-> {}, componentMap |-> {}]
NoListResult ==
    [called |-> FALSE, workspace |-> "", capsules |-> {}, readdir |-> "none",
     error |-> "none"]
NoInstalled == [p \in {} |-> {}]

Range(s) == {s[i] : i \in 1..Len(s)}

\* host.path: the directory of the workspace the Component Host serves.
hostPath == "/workspace"

\* The values opts.baseDir is called with ("" for an opts without baseDir).
BaseDirs == {"", hostPath, "/elsewhere"}

\* const CAPSULES_BASE_DIR = path.join(CACHE_ROOT, 'capsules') (line 38).
CAPSULES_BASE_DIR == "CACHE_ROOT/capsules"

\* object-hash's hash(value): a digest of the value, one per value.
hash(value) == <<"sha1", value>>

\* path.join(a, b)
join(a, b) == <<a, b>>

\* getCapsulesRootDir(baseDir) (lines 350-352).
getCapsulesRootDir(dir) == join(CAPSULES_BASE_DIR, hash(dir))

\* The directory the variables disk and rootDir describe: the isolation root of
\* the caller's base directory. Every other isolation root is missing.
isolationRoot == getCapsulesRootDir(IF baseDir = "" THEN hostPath ELSE baseDir)

\* dependencyResolver.getWorkspacePolicy(): the workspace's declared packages.
getWorkspacePolicy ==
    {[dependencyId |-> "lodash", lifecycleType |-> "runtime"],
     [dependencyId |-> "jest", lifecycleType |-> "dev"],
     [dependencyId |-> "react", lifecycleType |-> "peer"],
     [dependencyId |-> "react-dom", lifecycleType |-> "peer"]}

\* workspacePolicy.byLifecycleType(type): the entries of that lifecycle type.
byLifecycleType(policy, type) == {e \in policy : e.lifecycleType = type}

\* getPeersOnlyPolicy returning the workspace policy as it is.
getPeersOnlyPolicy_whole == getWorkspacePolicy

\* getPeersOnlyPolicy (lines 297-301).
getPeersOnlyPolicy == byLifecycleType(getWorkspacePolicy, "peer")

\* toComponentMap(capsuleList) (lines 325-331): the [component, path] tuples.
toComponentMap(capsuleList) ==
    {<<capsuleList[i][1], capsuleList[i]>> : i \in 1..Len(capsuleList)}

\* path.join(scope.getPath(), ISOLATED_ENV_ROOT, v4()) (environment.ts line 39).
GeneratedPath == "scope/ISOLATED_ENV_ROOT/v4"

\* The directories of the legacy Environment: the generated one, one the caller
\* names as dir, and one the caller names as opts.writeToPath.
EnvDirs == {GeneratedPath, "/given", "/out"}

\* A directory: whether it exists, whether it holds the file
\* ENV_IS_INSTALLED_FILENAME, and how far writeAll has written into it.
NoEnvDir == [exists |-> FALSE, marker |-> FALSE, written |-> "none"]

\* Environment.isEnvironmentInstalled(dir) on file system fs (lines 106-109).
isEnvironmentInstalledOn(fs, dir) == fs[dir].exists /\ fs[dir].marker

\* new Environment(scope, dir) (lines 37-41), no call made on it.
EnvironmentNew(dir) ==
    /\ envPath = (IF dir = "" THEN GeneratedPath ELSE dir)
    /\ consumer = FALSE
    /\ envPc = "idle"
    /\ envOpts = [writeToPath |-> ""]
    /\ writeToPath = ""
    /\ stoppedAt = "none"
    /\ envError = "none"
    /\ isolations = 0
    /\ markedBefore = [d \in EnvDirs |-> isEnvironmentInstalledOn(envFs, d)]

InitRun ==
    /\ hostIds \in HostSets
    /\ \E sc \in Scenarios :
          \/ /\ disk = ScenarioDisk(sc)
             /\ rootDir = PopulatedRoot(sc)
          \/ /\ disk = EmptyDisk
             /\ rootDir = NoRoot
    /\ uuid = 0
    /\ pc = "idle"
    /\ seeders = <<>>
    /\ opts \in {[seedersOnly |-> FALSE, emptyRootDir |-> FALSE, skipIfExists |-> FALSE,
                  getExistingAsIs |-> FALSE, alwaysNew |-> FALSE, installPackages |-> TRUE]}
    /\ compsAndDeps = <<>>
    /\ results = NoResults
    /\ components = <<>>
    /\ capsules = <<>>
    /\ data = <<>>
    /\ modified = {}
    /\ calls = NoCalls
    /\ linkArgs = NoLinkArgs
    /\ installed = NoInstalled
    /\ returnedAt = "none"
    /\ network = NoNetwork
    /\ error = "none"
    /\ history = <<>>
    /\ before = [disk |-> disk, rootDir |-> rootDir]
    /\ capsulesDir = NoDir
    /\ installArgs = NoInstallArgs
    /\ rewritten = {}
    /\ listResult = NoListResult

\* The caller leaves opts.baseDir unset.
Init ==
    /\ InitRun
    /\ baseDir = ""
    /\ envFs = [d \in EnvDirs |-> NoEnvDir]
    /\ EnvironmentNew("")

(* ------------------------------------------------------------------ *)
(* isolateComponents: resolving the components to isolate.              *)
(* ------------------------------------------------------------------ *)

RECURSIVE SuccessorsOf(_)
SuccessorsOf(ids) ==
    LET more == ids \cup UNION {Successors[c] : c \in ids}
    IN  IF more = ids THEN ids ELSE SuccessorsOf(more)

\* graph.successorsSubgraph(seeders).nodes.map(node => node.attr)
successorsSubgraph(ids) ==
    SelectSeq(GraphNodes, LAMBDA c : c \in SuccessorsOf(Range(ids)))

\* lodash compact on an array whose missing elements are "".
compact(array) == SelectSeq(array, LAMBDA x : x # "")

\* isolateComponents is called (lines 131-139).
isolateComponents(s, o) ==
    /\ pc = "idle"
    /\ seeders' = s
    /\ opts' = o
    /\ calls' = NoCalls
    /\ pc' = IF o.seedersOnly THEN "getMany" ELSE "createGraph"
    /\ before' = [disk |-> disk, rootDir |-> rootDir]
    /\ UNCHANGED <<envVars, hostIds, history, baseDir, listResult, diskVars, runVars>>

\* host.getMany(ids): whether the host resolves every id.
hostGetMany(ids) == Range(ids) \subseteq hostIds

\* getMany with the host's error caught: the run goes on with the seeds found.
getMany_goesOn ==
    /\ pc = "getMany"
    /\ components' = SelectSeq(seeders, LAMBDA c : c \in hostIds)
    /\ pc' = "createCapsules"
    /\ UNCHANGED <<envVars, hostIds, history, before, baseDir, listResult, capsulesDir,
                   installArgs, rewritten, diskVars, seeders, opts, compsAndDeps,
                   results, capsules, data, modified, calls, linkArgs, installed,
                   returnedAt, network, error>>

\* await host.getMany(seeders) (line 139): the seeds, or the host's NotFound
\* error, which leaves isolateComponents.
getMany ==
    /\ pc = "getMany"
    /\ IF hostGetMany(seeders)
         THEN /\ components' = seeders
              /\ pc' = "createCapsules"
              /\ error' = error
         ELSE /\ error' = "NotFound"
              /\ pc' = "failed"
              /\ components' = components
    /\ UNCHANGED <<envVars, hostIds, history, before, baseDir, listResult, capsulesDir,
                   installArgs, rewritten, diskVars, seeders, opts, compsAndDeps, results, capsules,
                   data, modified, calls, linkArgs, installed, returnedAt, network>>

\* createGraph up to the start of the hasId batch (lines 147-154).
createGraph ==
    /\ pc = "createGraph"
    /\ compsAndDeps' = successorsSubgraph(seeders)
    /\ results' = NoResults
    /\ pc' = "hasId"
    /\ UNCHANGED <<envVars, hostIds, history, before, baseDir, listResult, capsulesDir,
                   installArgs, rewritten, diskVars, seeders, opts, components, capsules, data,
                   modified, calls, linkArgs, installed, returnedAt, network, error>>

\* hasId with the host's answer ignored: every node is kept.
hasId_keepsAll(i) ==
    /\ pc = "hasId"
    /\ i \in 1..Len(compsAndDeps)
    /\ i \notin DOMAIN results
    /\ results' = (i :> compsAndDeps[i]) @@ results
    /\ UNCHANGED <<envVars, hostIds, history, before, baseDir, listResult, capsulesDir,
                   installArgs, rewritten, diskVars, pc, seeders, opts, compsAndDeps,
                   components, capsules, data, modified, calls, linkArgs, installed,
                   returnedAt, network, error>>

\* The promise of node i settles: the node, or undefined (lines 154-158).
hasId(i) ==
    /\ pc = "hasId"
    /\ i \in 1..Len(compsAndDeps)
    /\ i \notin DOMAIN results
    /\ results' = (i :> (IF compsAndDeps[i] \in hostIds THEN compsAndDeps[i] ELSE ""))
                      @@ results
    /\ UNCHANGED <<envVars, hostIds, history, before, baseDir, listResult, capsulesDir,
                   installArgs, rewritten, diskVars, pc, seeders, opts, compsAndDeps, components,
                   capsules, data, modified, calls, linkArgs, installed, returnedAt,
                   network, error>>

\* createGraph returning the subgraph's nodes without the filter.
createGraphReturn_all ==
    /\ pc = "hasId"
    /\ DOMAIN results = 1..Len(compsAndDeps)
    /\ components' = compsAndDeps
    /\ results' = NoResults
    /\ pc' = "createCapsules"
    /\ UNCHANGED <<envVars, hostIds, history, before, baseDir, listResult, diskVars, seeders, opts,
                   compsAndDeps, capsules, data, modified, calls, linkArgs, installed,
                   returnedAt, network, error, capsulesDir, installArgs, rewritten>>

\* compact(await Promise.all(existingCompsP)) (line 159).
createGraphReturn ==
    /\ pc = "hasId"
    /\ DOMAIN results = 1..Len(compsAndDeps)
    /\ components' = compact([i \in 1..Len(compsAndDeps) |-> results[i]])
    /\ results' = NoResults
    /\ pc' = "createCapsules"
    /\ UNCHANGED <<envVars, hostIds, history, before, baseDir, listResult, capsulesDir,
                   installArgs, rewritten, diskVars, seeders, opts, compsAndDeps, capsules, data,
                   modified, calls, linkArgs, installed, returnedAt, network, error>>

(* ------------------------------------------------------------------ *)
(* createCapsules: wipe, capsule creation and the early returns.        *)
(* ------------------------------------------------------------------ *)

\* createCapsules given host.path or the caller's baseDir, with the caller's
\* opts object left as it was.
createCapsules_keepsOpts ==
    /\ pc = "createCapsules"
    /\ capsulesDir' = getCapsulesRootDir(IF baseDir = "" THEN hostPath ELSE baseDir)
    /\ pc' = "emptyRootDir"
    /\ UNCHANGED <<envVars, hostIds, history, before, baseDir, listResult, diskVars, calls,
                   seeders, opts, compsAndDeps, results, components, capsules, data,
                   modified, linkArgs, installed, returnedAt, network, error,
                   installArgs, rewritten>>

\* opts.baseDir = opts.baseDir || host.path, and createCapsules' capsulesDir
\* (lines 140, 175): the assignment changes the caller's opts object.
createCapsules ==
    /\ pc = "createCapsules"
    /\ baseDir' = IF baseDir = "" THEN hostPath ELSE baseDir
    /\ capsulesDir' = getCapsulesRootDir(baseDir')
    /\ pc' = "emptyRootDir"
    /\ UNCHANGED <<envVars, hostIds, history, before, listResult, diskVars, calls, seeders, opts,
                   compsAndDeps, results, components, capsules, data, modified,
                   linkArgs, installed, returnedAt, network, error, installArgs,
                   rewritten>>

\* emptyRootDir with the option ignored: nothing is deleted.
emptyRootDir_keepsRoot ==
    /\ pc = "emptyRootDir"
    /\ pc' = "createCapsulesFromComponents"
    /\ UNCHANGED <<envVars, hostIds, history, before, baseDir, listResult, diskVars, calls,
                   seeders, opts, runVars>>

\* emptyRootDir with the wipe done whether the option is set or not.
emptyRootDir_always ==
    /\ pc = "emptyRootDir"
    /\ disk' = EmptyDisk
    /\ rootDir' = EmptyRoot
    /\ calls' = [calls EXCEPT !.wipe = @ + 1]
    /\ pc' = "createCapsulesFromComponents"
    /\ UNCHANGED <<envVars, hostIds, history, before, baseDir, listResult, uuid, seeders, opts,
                   runVars>>

\* if (opts.emptyRootDir) await fs.emptyDir(capsulesDir) (lines 176-178).
emptyRootDir ==
    /\ pc = "emptyRootDir"
    /\ IF opts.emptyRootDir
         THEN /\ disk' = EmptyDisk
              /\ rootDir' = EmptyRoot
              /\ calls' = [calls EXCEPT !.wipe = @ + 1]
         ELSE UNCHANGED <<disk, rootDir, calls>>
    /\ pc' = "createCapsulesFromComponents"
    /\ UNCHANGED <<envVars, hostIds, history, before, baseDir, listResult, uuid, seeders, opts,
                   runVars>>

\* Capsule.createFromComponent up to its first await, for every component in
\* turn: the capsule paths (lines 355-364).
createCapsulesFromComponents ==
    /\ pc = "createCapsulesFromComponents"
    /\ capsules' = [i \in 1..Len(components) |->
                       CapsulePath(components[i], IF opts.alwaysNew THEN uuid + i ELSE 0)]
    /\ uuid' = IF opts.alwaysNew THEN uuid + Len(components) ELSE uuid
    /\ results' = NoResults
    /\ pc' = "capsuleStart"
    /\ UNCHANGED <<envVars, hostIds, history, before, baseDir, listResult, capsulesDir,
                   installArgs, rewritten, disk, rootDir, seeders, opts, compsAndDeps, components,
                   data, modified, calls, linkArgs, installed, returnedAt, network,
                   error>>

\* The creation of capsule i completes: its directory exists.
capsuleStart(i) ==
    /\ pc = "capsuleStart"
    /\ i \in 1..Len(capsules)
    /\ i \notin DOMAIN results
    /\ disk' = EnsureDir(disk, capsules[i])
    /\ rootDir' = [rootDir EXCEPT !.exists = TRUE]
    /\ calls' = [calls EXCEPT !.mkdir = @ + 1]
    /\ results' = (i :> "") @@ results
    /\ UNCHANGED <<envVars, hostIds, history, before, baseDir, listResult, capsulesDir,
                   installArgs, rewritten, uuid, pc, seeders, opts, compsAndDeps, components,
                   capsules, data, modified, linkArgs, installed, returnedAt, network,
                   error>>

\* capsule.fs.existsSync('package.json')
existsSync(p) == p \in DOMAIN disk /\ disk[p].manifest.kind # "none"

\* afterCreate with the skipIfExists return lost: the pipeline always runs.
afterCreate_neverSkips ==
    IF opts.getExistingAsIs THEN "getExistingAsIs"
    ELSE "getCapsulesPreviousPackageJson"

\* afterCreate taking the skipIfExists return as soon as one capsule has a manifest.
afterCreate_anyExists ==
    IF opts.getExistingAsIs THEN "getExistingAsIs"
    ELSE IF opts.skipIfExists
            /\ Len(SelectSeq(capsules, existsSync)) > 0
         THEN "skipIfExists"
         ELSE "getCapsulesPreviousPackageJson"

\* The statement createCapsules goes on to once the capsules exist (lines 180-192).
afterCreate ==
    IF opts.getExistingAsIs THEN "getExistingAsIs"
    ELSE IF opts.skipIfExists
            /\ Len(SelectSeq(capsules, existsSync)) = Len(capsules)
         THEN "skipIfExists"
         ELSE "getCapsulesPreviousPackageJson"

\* The capsule batch is complete; the two early returns (lines 179-191).
capsulesCreated ==
    /\ pc = "capsuleStart"
    /\ DOMAIN results = 1..Len(capsules)
    /\ results' = NoResults
    /\ IF afterCreate = "getCapsulesPreviousPackageJson"
         THEN /\ pc' = "getCapsulesPreviousPackageJson"
              /\ returnedAt' = returnedAt
         ELSE /\ pc' = "return"
              /\ returnedAt' = afterCreate
    /\ UNCHANGED <<envVars, hostIds, history, before, baseDir, listResult, capsulesDir,
                   installArgs, rewritten, diskVars, seeders, opts, compsAndDeps, components,
                   capsules, data, modified, calls, linkArgs, installed, network,
                   error>>

(* ------------------------------------------------------------------ *)
(* createCapsules: snapshot, write, current manifests.                   *)
(* ------------------------------------------------------------------ *)

\* readPreviousPackageJson taking a manifest it cannot parse for an empty object.
readPreviousPackageJson_corruptAsEmpty(p) ==
    IF p \in DOMAIN disk /\ disk[p].manifest.kind # "none"
    THEN ParsedJson(IF disk[p].manifest.kind = "json" THEN disk[p].manifest.json
                    ELSE EmptyJson)
    ELSE NullJson

\* JSON.parse of the capsule's package.json, or null when reading or parsing
\* throws (lines 384-391).
readPreviousPackageJson(p) ==
    IF p \in DOMAIN disk /\ disk[p].manifest.kind = "json"
    THEN ParsedJson(disk[p].manifest.json)
    ELSE NullJson

\* The snapshot task of capsule i settles (lines 383-396).
previousPackageJsonRead(i) ==
    /\ pc = "getCapsulesPreviousPackageJson"
    /\ i \in 1..Len(capsules)
    /\ i \notin DOMAIN results
    /\ results' = (i :> readPreviousPackageJson(capsules[i])) @@ results
    /\ UNCHANGED <<envVars, hostIds, history, before, baseDir, listResult, capsulesDir,
                   installArgs, rewritten, diskVars, pc, seeders, opts, compsAndDeps, components,
                   capsules, data, modified, calls, linkArgs, installed, returnedAt,
                   network, error>>

\* capsulesWithPackagesData = await getCapsulesPreviousPackageJson(capsules) (line 192).
getCapsulesPreviousPackageJson ==
    /\ pc = "getCapsulesPreviousPackageJson"
    /\ DOMAIN results = 1..Len(capsules)
    /\ data' = [i \in 1..Len(capsules) |->
                   [capsule |-> capsules[i], component |-> components[i],
                    previousPackageJson |-> results[i],
                    currentPackageJson |-> Undefined]]
    /\ results' = NoResults
    /\ pc' = "writeComponentsInCapsules"
    /\ UNCHANGED <<envVars, hostIds, history, before, baseDir, listResult, capsulesDir,
                   installArgs, rewritten, diskVars, seeders, opts, compsAndDeps, components,
                   capsules, modified, calls, linkArgs, installed, returnedAt, network,
                   error>>

\* capsuleList.getCapsule(id): the indexes of the capsules of that component.
getCapsule(id) == {j \in 1..Len(capsules) : capsules[j][1] = id}

\* persistAllToCapsule: the component's files and its manifest replace those in
\* the capsule; everything else in the capsule stays.
persistAllToCapsule(d, p, c, allIds) ==
    [d EXCEPT ![p].manifest = JsonFile(WrittenPackageJson(c, allIds)), ![p].src = c]

\* componentWritten with every component written into the first capsule.
componentWritten_shared(i) ==
    /\ pc = "writeComponentsInCapsules"
    /\ i \in 1..Len(components)
    /\ i \notin DOMAIN results
    /\ IF getCapsule(components[i]) = {}
         THEN UNCHANGED <<disk, calls>>
         ELSE /\ disk' = persistAllToCapsule(disk, capsules[1], components[i],
                                             Range(components))
              /\ calls' = [calls EXCEPT !.write = @ + 1]
    /\ results' = (i :> "") @@ results
    /\ UNCHANGED <<envVars, hostIds, history, before, baseDir, listResult, capsulesDir,
                   installArgs, rewritten, rootDir, uuid, pc, seeders, opts,
                   compsAndDeps, components, capsules, data, modified, linkArgs,
                   installed, returnedAt, network, error>>

\* componentWritten throwing for a component that has no capsule.
componentWritten_throws(i) ==
    /\ pc = "writeComponentsInCapsules"
    /\ i \in 1..Len(components)
    /\ i \notin DOMAIN results
    /\ IF getCapsule(components[i]) = {}
         THEN /\ error' = "Error"
              /\ pc' = "failed"
              /\ UNCHANGED <<disk, calls>>
         ELSE LET j == CHOOSE k \in getCapsule(components[i]) :
                          \A l \in getCapsule(components[i]) : k <= l
              IN  /\ disk' = persistAllToCapsule(disk, capsules[j], components[i],
                                                 Range(components))
                  /\ calls' = [calls EXCEPT !.write = @ + 1]
                  /\ UNCHANGED <<pc, error>>
    /\ results' = (i :> "") @@ results
    /\ UNCHANGED <<envVars, hostIds, history, before, baseDir, listResult, capsulesDir,
                   installArgs, rewritten, rootDir, uuid, seeders, opts, compsAndDeps,
                   components, capsules, data, modified, linkArgs, installed,
                   returnedAt, network>>

\* The write task of component i settles (lines 286-293).
componentWritten(i) ==
    /\ pc = "writeComponentsInCapsules"
    /\ i \in 1..Len(components)
    /\ i \notin DOMAIN results
    /\ IF getCapsule(components[i]) = {}
         THEN UNCHANGED <<disk, calls>>
         ELSE LET j == CHOOSE k \in getCapsule(components[i]) :
                          \A l \in getCapsule(components[i]) : k <= l
              IN  /\ disk' = persistAllToCapsule(disk, capsules[j], components[i],
                                                 Range(components))
                  /\ calls' = [calls EXCEPT !.write = @ + 1]
    /\ results' = (i :> "") @@ results
    /\ UNCHANGED <<envVars, hostIds, history, before, baseDir, listResult, capsulesDir,
                   installArgs, rewritten, rootDir, uuid, pc, seeders, opts, compsAndDeps, components,
                   capsules, data, modified, linkArgs, installed, returnedAt, network,
                   error>>

\* await this.writeComponentsInCapsules(...) returns (line 194).
writeComponentsInCapsules ==
    /\ pc = "writeComponentsInCapsules"
    /\ DOMAIN results = 1..Len(components)
    /\ results' = NoResults
    /\ pc' = "updateWithCurrentPackageJsonData"
    /\ UNCHANGED <<envVars, hostIds, history, before, baseDir, listResult, capsulesDir,
                   installArgs, rewritten, diskVars, seeders, opts, compsAndDeps, components,
                   capsules, data, modified, calls, linkArgs, installed, returnedAt,
                   network, error>>

\* capsulesWithPackagesData.find(c => c.capsule.component.id.isEqual(id)):
\* the indexes of the entries of that component.
findData(id) == {j \in 1..Len(data) : data[j].component = id}

First(S) == CHOOSE k \in S : \A l \in S : k <= l
Last(S) == CHOOSE k \in S : \A l \in S : l <= k

\* afterUpdate with the install call left out of the branch: link at once.
afterUpdate_linkWithoutInstall ==
    IF opts.installPackages THEN "linkInCapsules" ELSE "rewritePackageJson"

\* afterUpdate with the installPackages test dropped: install and link always.
afterUpdate_alwaysInstalls == "installInCapsules"

\* The statement createCapsules goes on to after the current manifests
\* (lines 196-200): install and link, or the final rewrite at once.
afterUpdate ==
    IF opts.installPackages THEN "installInCapsules" ELSE "rewritePackageJson"

\* The capsules updateWithCurrentPackageJsonData has no data entry for.
noData == {i \in 1..Len(capsules) : findData(capsules[i][1]) = {}}

\* The data after the forEach went over capsules 1..n (lines 401-406).
currentPackageJsonData(n) ==
    [j \in 1..Len(data) |->
        LET from == {i \in 1..n : First(findData(capsules[i][1])) = j}
        IN  IF from = {} THEN data[j]
            ELSE [data[j] EXCEPT !.currentPackageJson =
                    Defined(getCurrentPackageJson(capsules[Last(from)][1],
                        disk[capsules[Last(from)]].manifest.json))]]

\* updateWithCurrentPackageJsonData skipping a capsule it finds no entry for.
updateWithCurrentPackageJsonData_skipsMissing ==
    /\ pc = "updateWithCurrentPackageJsonData"
    /\ data' = currentPackageJsonData(Len(capsules))
    /\ pc' = afterUpdate
    /\ error' = error
    /\ UNCHANGED <<envVars, hostIds, history, before, baseDir, listResult, capsulesDir,
                   installArgs, rewritten, diskVars, seeders, opts, compsAndDeps, results,
                   components, capsules, modified, calls, linkArgs, installed,
                   returnedAt, network>>

\* updateWithCurrentPackageJsonData (lines 400-407, called on line 195): the
\* throw leaves createCapsules with the entries before it assigned.
updateWithCurrentPackageJsonData ==
    /\ pc = "updateWithCurrentPackageJsonData"
    /\ IF noData # {}
         THEN /\ error' = "Error"
              /\ pc' = "failed"
              /\ data' = currentPackageJsonData(First(noData) - 1)
         ELSE /\ data' = currentPackageJsonData(Len(capsules))
              /\ pc' = afterUpdate
              /\ error' = error
    /\ UNCHANGED <<envVars, hostIds, history, before, baseDir, listResult, capsulesDir,
                   installArgs, rewritten, diskVars, seeders, opts, compsAndDeps, results,
                   components, capsules, modified, calls, linkArgs, installed,
                   returnedAt, network>>

(* ------------------------------------------------------------------ *)
(* createCapsules: install, link, final rewrite, return.                *)
(* ------------------------------------------------------------------ *)

\* The entry the installer may add to a capsule's manifest (a peer copied
\* into the runtime dependencies).
InstallerEntry == <<"R", "^1.0.0">>

\* The capsules whose manifest one install amends: none, or one of them.
InstallerChoices == {{}} \cup {{capsules[i]} : i \in 1..Len(capsules)}

\* installInCapsules with the installer's error caught: the run goes on to link.
installInCapsules_goesOn ==
    /\ pc = "installInCapsules"
    /\ calls' = [calls EXCEPT !.install = @ + 1]
    /\ \/ error' = "InstallError"
       \/ error' = error
    /\ pc' = "linkInCapsules"
    /\ UNCHANGED <<envVars, hostIds, history, before, baseDir, listResult, capsulesDir,
                   installArgs, rewritten, diskVars, seeders, opts, compsAndDeps,
                   results, components, capsules, data, modified, linkArgs, installed,
                   returnedAt, network>>

\* await this.installInCapsules(...) (lines 198, 215-244): one call of the
\* installer for the whole root, which throws or leaves the shared tree.
installInCapsules ==
    /\ pc = "installInCapsules"
    /\ calls' = [calls EXCEPT !.install = @ + 1]
    /\ installArgs' = [dir |-> capsulesDir, policy |-> getPeersOnlyPolicy,
                       componentMap |-> toComponentMap(capsules)]
    /\ \/ /\ error' = "InstallError"
          /\ pc' = "failed"
          /\ UNCHANGED <<disk, rootDir, installed>>
       \/ /\ \E amended \in InstallerChoices :
                /\ disk' = [p \in DOMAIN disk |->
                              IF p \in amended
                              THEN [disk[p] EXCEPT !.manifest.json =
                                      addDependencies(@, {InstallerEntry})]
                              ELSE disk[p]]
                /\ installed' = [p \in amended |-> {InstallerEntry}]
          /\ rootDir' = [rootDir EXCEPT !.nodeModules = TRUE]
          /\ pc' = "linkInCapsules"
          /\ error' = error
    /\ UNCHANGED <<envVars, hostIds, history, before, baseDir, listResult, capsulesDir,
                   rewritten, uuid, seeders, opts, compsAndDeps, results, components,
                   capsules, data, modified, linkArgs, returnedAt, network>>

\* getCapsulesWithModifiedPackageJson (lines 270-280).
getCapsulesWithModifiedPackageJson(capsulesWithPackagesData) ==
    {capsulesWithPackagesData[j].capsule :
        j \in {k \in 1..Len(capsulesWithPackagesData) :
                  wereDependenciesInPackageJsonChanged(capsulesWithPackagesData[k])}}

\* linkInCapsules up to the linker's link (lines 252-261): the call throws or links.
linkInCapsules ==
    /\ pc = "linkInCapsules"
    /\ modified' = getCapsulesWithModifiedPackageJson(data)
    /\ calls' = [calls EXCEPT !.link = @ + 1]
    /\ linkArgs' = [linkArgs EXCEPT !.linker = Range(capsules)]
    /\ \/ /\ error' = "LinkError"
          /\ pc' = "failed"
       \/ /\ pc' = "symlinkOnCapsuleRoot"
          /\ error' = error
    /\ UNCHANGED <<envVars, hostIds, history, before, baseDir, listResult, capsulesDir,
                   installArgs, rewritten, diskVars, seeders, opts, compsAndDeps, results, components,
                   capsules, data, installed, returnedAt, network>>

\* await symlinkOnCapsuleRoot(capsuleList, ...) (line 262).
symlinkOnCapsuleRoot ==
    /\ pc = "symlinkOnCapsuleRoot"
    /\ linkArgs' = [linkArgs EXCEPT !.root = Range(capsules)]
    /\ calls' = [calls EXCEPT !.symlinkRoot = @ + 1]
    /\ rootDir' = [rootDir EXCEPT !.links = @ \cup {capsules[i][1] : i \in 1..Len(capsules)}]
    /\ pc' = "symlinkDependenciesToCapsules"
    /\ UNCHANGED <<envVars, hostIds, history, before, baseDir, listResult, capsulesDir,
                   installArgs, rewritten, disk, uuid, seeders, opts, compsAndDeps, results, components,
                   capsules, data, modified, installed, returnedAt, network,
                   error>>

\* symlinkDependenciesToCapsules handed the whole capsule list.
symlinkDependenciesToCapsules_all ==
    /\ pc = "symlinkDependenciesToCapsules"
    /\ linkArgs' = [linkArgs EXCEPT !.dependencies = Range(capsules)]
    /\ calls' = [calls EXCEPT !.symlinkDependencies = @ + 1]
    /\ disk' = [p \in DOMAIN disk |->
                  IF p \in Range(capsules) THEN [disk[p] EXCEPT !.depLinks = TRUE]
                  ELSE disk[p]]
    /\ pc' = "symlinkBitBinToCapsules"
    /\ UNCHANGED <<envVars, hostIds, history, before, baseDir, listResult, capsulesDir,
                   installArgs, rewritten, rootDir, uuid, seeders, opts, compsAndDeps,
                   results, components, capsules, data, modified, installed,
                   returnedAt, network, error>>

\* await symlinkDependenciesToCapsules(capsulesWithModifiedPackageJson, ...) (line 263).
symlinkDependenciesToCapsules ==
    /\ pc = "symlinkDependenciesToCapsules"
    /\ linkArgs' = [linkArgs EXCEPT !.dependencies = modified]
    /\ calls' = [calls EXCEPT !.symlinkDependencies = @ + 1]
    /\ disk' = [p \in DOMAIN disk |->
                  IF p \in modified THEN [disk[p] EXCEPT !.depLinks = TRUE] ELSE disk[p]]
    /\ pc' = "symlinkBitBinToCapsules"
    /\ UNCHANGED <<envVars, hostIds, history, before, baseDir, listResult, capsulesDir,
                   installArgs, rewritten, rootDir, uuid, seeders, opts, compsAndDeps, results,
                   components, capsules, data, modified, installed, returnedAt,
                   network, error>>

\* await symlinkBitBinToCapsules(capsulesWithModifiedPackageJson, ...) (line 266).
symlinkBitBinToCapsules ==
    /\ pc = "symlinkBitBinToCapsules"
    /\ linkArgs' = [linkArgs EXCEPT !.bitBin = modified]
    /\ calls' = [calls EXCEPT !.symlinkBitBin = @ + 1]
    /\ disk' = [p \in DOMAIN disk |->
                  IF p \in modified THEN [disk[p] EXCEPT !.bitBin = TRUE] ELSE disk[p]]
    /\ pc' = "rewritePackageJson"
    /\ UNCHANGED <<envVars, hostIds, history, before, baseDir, listResult, capsulesDir,
                   installArgs, rewritten, rootDir, uuid, seeders, opts, compsAndDeps, results,
                   components, capsules, data, modified, installed, returnedAt,
                   network, error>>

\* The disk after the writeFileSync of entries 1..n, in order (lines 205-210).
RECURSIVE writeFileSync(_, _, _)
writeFileSync(d, capsulesWithPackagesData, n) ==
    IF n = 0 THEN d
    ELSE LET written == writeFileSync(d, capsulesWithPackagesData, n - 1)
             entry == capsulesWithPackagesData[n]
         IN  [written EXCEPT ![entry.capsule].manifest =
                                JsonFile(entry.currentPackageJson.json)]

\* rewritePackageJson with the rewrite loop left out.
rewritePackageJson_skipped ==
    /\ pc = "rewritePackageJson"
    /\ returnedAt' = "end"
    /\ pc' = "return"
    /\ UNCHANGED <<envVars, hostIds, history, before, baseDir, listResult, capsulesDir,
                   installArgs, rewritten, diskVars, calls, seeders, opts, compsAndDeps,
                   results, components, capsules, data, modified, linkArgs, installed,
                   network, error>>

\* rewritePackageJson going over the capsules the diff flags only.
rewritePackageJson_changedOnly ==
    /\ pc = "rewritePackageJson"
    /\ LET changed == SelectSeq(data, wereDependenciesInPackageJsonChanged)
       IN  /\ disk' = writeFileSync(disk, changed, Len(changed))
           /\ calls' = [calls EXCEPT !.rewrite = @ + Len(changed)]
           /\ rewritten' = {changed[j].capsule : j \in 1..Len(changed)}
    /\ returnedAt' = "end"
    /\ pc' = "return"
    /\ UNCHANGED <<envVars, hostIds, history, before, baseDir, listResult, capsulesDir,
                   installArgs, rootDir, uuid, seeders, opts, compsAndDeps, results,
                   components, capsules, data, modified, linkArgs, installed, network,
                   error>>

\* The final rewrite of the manifests, and createCapsules' last return (lines 205-212).
rewritePackageJson ==
    /\ pc = "rewritePackageJson"
    /\ disk' = writeFileSync(disk, data, Len(data))
    /\ calls' = [calls EXCEPT !.rewrite = @ + Len(data)]
    /\ rewritten' = {data[j].capsule : j \in 1..Len(data)}
    /\ returnedAt' = "end"
    /\ pc' = "return"
    /\ UNCHANGED <<envVars, hostIds, history, before, baseDir, listResult, capsulesDir,
                   installArgs, rootDir, uuid, seeders, opts, compsAndDeps, results,
                   components, capsules, data, modified, linkArgs, installed, network,
                   error>>

\* return new Network(capsuleList, seeders, ...) (lines 142-144).
returnNetwork ==
    /\ pc = "return"
    /\ network' = [returned |-> TRUE, capsules |-> capsules, seeders |-> seeders,
                   root |-> getCapsulesRootDir(baseDir)]
    /\ pc' = "done"
    /\ UNCHANGED <<envVars, hostIds, history, before, baseDir, listResult, capsulesDir,
                   installArgs, rewritten, diskVars, seeders, opts, compsAndDeps, results, components,
                   capsules, data, modified, calls, linkArgs, installed, returnedAt,
                   error>>

\* How many calls of isolateComponents one caller makes in a row.
MaxCalls == 2

\* The caller repeats its call, with the same seeders and the same opts, once
\* the call before has returned or thrown.
isolateComponentsAgain ==
    /\ pc \in {"done", "failed"}
    /\ Len(history) + 1 < MaxCalls
    /\ history' = Append(history, [seeders |-> seeders, opts |-> opts,
                                   network |-> network, error |-> error])
    /\ compsAndDeps' = <<>>
    /\ results' = NoResults
    /\ components' = <<>>
    /\ capsules' = <<>>
    /\ data' = <<>>
    /\ modified' = {}
    /\ calls' = NoCalls
    /\ linkArgs' = NoLinkArgs
    /\ installed' = NoInstalled
    /\ returnedAt' = "none"
    /\ network' = NoNetwork
    /\ error' = "none"
    /\ pc' = IF opts.seedersOnly THEN "getMany" ELSE "createGraph"
    /\ before' = [disk |-> disk, rootDir |-> rootDir]
    /\ capsulesDir' = NoDir
    /\ installArgs' = NoInstallArgs
    /\ rewritten' = {}
    /\ UNCHANGED <<envVars, hostIds, baseDir, listResult, diskVars, seeders, opts>>

Next ==
    \/ \E s \in SeedLists, o \in Options : isolateComponents(s, o)
    \/ getMany
    \/ createGraph
    \/ \E i \in 1..Len(GraphNodes) : hasId(i)
    \/ createGraphReturn
    \/ createCapsules
    \/ emptyRootDir
    \/ createCapsulesFromComponents
    \/ \E i \in 1..Len(GraphNodes) : capsuleStart(i)
    \/ capsulesCreated
    \/ \E i \in 1..Len(GraphNodes) : previousPackageJsonRead(i)
    \/ getCapsulesPreviousPackageJson
    \/ \E i \in 1..Len(GraphNodes) : componentWritten(i)
    \/ writeComponentsInCapsules
    \/ updateWithCurrentPackageJsonData
    \/ installInCapsules
    \/ linkInCapsules
    \/ symlinkOnCapsuleRoot
    \/ symlinkDependenciesToCapsules
    \/ symlinkBitBinToCapsules
    \/ rewritePackageJson
    \/ returnNetwork

Spec == Init /\ [][Next]_vars

NextAgain == Next \/ isolateComponentsAgain

SpecAgain == Init /\ [][NextAgain]_vars

\* The caller's opts carries any base directory, or none; the isolation root is
\* missing, or holds the capsules of an earlier run.
InitRoot ==
    /\ InitRun
    /\ baseDir \in BaseDirs
    /\ \/ rootDir = NoRoot
       \/ disk = ScenarioDisk([c \in CompIds |-> "same"])
    /\ envFs = [d \in EnvDirs |-> NoEnvDir]
    /\ EnvironmentNew("")

SpecRoot == InitRoot /\ [][NextAgain]_vars

(* ------------------------------------------------------------------ *)
(* writeComponentsInCapsules and updateWithCurrentPackageJsonData on    *)
(* their own.                                                           *)
(* ------------------------------------------------------------------ *)

\* The sequences that keep some of the elements of s, in s's order.
SubSeqs(s) == {SelectSeq(s, LAMBDA x : x \in K) : K \in SUBSET Range(s)}

\* The component lists writeComponentsInCapsules is called with.
ComponentLists == {<<"A", "B", "C">>, <<"B", "A">>}

\* createCapsules at its call of writeComponentsInCapsules, with the arguments
\* of writeComponentsInCapsules and of updateWithCurrentPackageJsonData drawn
\* from their parameter types: a capsule list that may lack the capsule of a
\* component, snapshot data that may lack the entry of a capsule. The capsule
\* directories of an earlier run are on disk.
InitWrite ==
    /\ hostIds = CompIds
    /\ \E v \in {"same", "nomanifest"} :
          /\ disk = ScenarioDisk([c \in CompIds |-> v])
          /\ rootDir = PopulatedRoot([c \in CompIds |-> v])
    /\ uuid = 0
    /\ pc = "writeComponentsInCapsules"
    /\ components \in ComponentLists
    /\ seeders = components
    /\ opts \in {[seedersOnly |-> TRUE, emptyRootDir |-> FALSE, skipIfExists |-> FALSE,
                  getExistingAsIs |-> FALSE, alwaysNew |-> FALSE, installPackages |-> b] :
                     b \in BOOLEAN}
    /\ compsAndDeps = <<>>
    /\ results = NoResults
    /\ capsules \in SubSeqs([i \in 1..Len(components) |-> CapsulePath(components[i], 0)])
    /\ data \in SubSeqs([i \in 1..Len(capsules) |->
                            [capsule |-> capsules[i], component |-> capsules[i][1],
                             previousPackageJson |-> readPreviousPackageJson(capsules[i]),
                             currentPackageJson |-> Undefined]])
    /\ modified = {}
    /\ calls = [NoCalls EXCEPT !.mkdir = Len(capsules)]
    /\ linkArgs = NoLinkArgs
    /\ installed = NoInstalled
    /\ returnedAt = "none"
    /\ network = NoNetwork
    /\ error = "none"
    /\ history = <<>>
    /\ before = [disk |-> disk, rootDir |-> rootDir]
    /\ baseDir = hostPath
    /\ capsulesDir = getCapsulesRootDir(hostPath)
    /\ installArgs = NoInstallArgs
    /\ rewritten = {}
    /\ listResult = NoListResult
    /\ envFs = [d \in EnvDirs |-> NoEnvDir]
    /\ EnvironmentNew("")

NextWrite ==
    \/ \E i \in 1..Len(GraphNodes) : componentWritten(i)
    \/ writeComponentsInCapsules
    \/ updateWithCurrentPackageJsonData
    \/ installInCapsules
    \/ linkInCapsules
    \/ symlinkOnCapsuleRoot
    \/ symlinkDependenciesToCapsules
    \/ symlinkBitBinToCapsules
    \/ rewritePackageJson
    \/ returnNetwork

SpecWrite == InitWrite /\ [][NextWrite]_vars

(* ------------------------------------------------------------------ *)
(* list.                                                                *)
(* ------------------------------------------------------------------ *)

\* The workspace paths list is called with.
Workspaces == {hostPath, "/elsewhere"}

\* The errors fs.readdir throws on a directory that exists ("none": it lists).
ReaddirErrors == {"none", "EACCES", "ENOTDIR"}

\* The entries of the isolation root: the capsule directories, the file that is
\* no capsule, and the node_modules of the shared install and of the root links.
Entries ==
    DOMAIN disk
    \cup (IF rootDir.stray THEN {<<"stray">>} ELSE {})
    \cup (IF rootDir.nodeModules \/ rootDir.links # {} THEN {<<"node_modules">>} ELSE {})

\* fs.readdir(folder), throwing e if the directory exists and e is an error.
readdir(folder, e) ==
    IF folder = isolationRoot /\ rootDir.exists
    THEN [code |-> e, entries |-> IF e = "none" THEN Entries ELSE {}]
    ELSE [code |-> "ENOENT", entries |-> {}]

\* list with a catch that returns the empty list whatever the error is.
list_swallowsAll(workspacePath, e) ==
    /\ pc \in {"done", "failed"}
    /\ ~listResult.called
    /\ LET workspaceCapsuleFolder == getCapsulesRootDir(workspacePath)
           capsules_ == readdir(workspaceCapsuleFolder, e)
       IN  listResult' =
               [called |-> TRUE, workspace |-> workspacePath, readdir |-> capsules_.code,
                capsules |-> {join(workspaceCapsuleFolder, c) : c \in capsules_.entries},
                error |-> "none"]
    /\ UNCHANGED <<envVars, hostIds, history, before, baseDir, diskVars, pc, seeders, opts, calls,
                   runVars>>

\* list(workspacePath) (lines 333-348), called once a run is over.
list(workspacePath, e) ==
    /\ pc \in {"done", "failed"}
    /\ ~listResult.called
    /\ LET workspaceCapsuleFolder == getCapsulesRootDir(workspacePath)
           capsules_ == readdir(workspaceCapsuleFolder, e)
       IN  listResult' =
               [called |-> TRUE, workspace |-> workspacePath, readdir |-> capsules_.code,
                capsules |-> {join(workspaceCapsuleFolder, c) : c \in capsules_.entries},
                error |-> IF capsules_.code \in {"none", "ENOENT"} THEN "none"
                          ELSE capsules_.code]
    /\ UNCHANGED <<envVars, hostIds, history, before, baseDir, diskVars, pc, seeders, opts, calls,
                   runVars>>

NextList == Next \/ \E w \in Workspaces, e \in ReaddirErrors : list(w, e)

SpecList == Init /\ [][NextList]_vars

(* ------------------------------------------------------------------ *)
(* The legacy Environment (src/environment/environment.ts).             *)
(* ------------------------------------------------------------------ *)

\* How many calls of isolateComponent are made on the environment's directories.
MaxIsolations == 2

\* What a directory holds before the Environment is constructed: nothing, an
\* empty directory, or an environment installed earlier.
EnvDirStates ==
    {NoEnvDir,
     [exists |-> TRUE, marker |-> FALSE, written |-> "none"],
     [exists |-> TRUE, marker |-> TRUE, written |-> "all"]}

\* Environment.isEnvironmentInstalled(dir) (lines 106-109).
isEnvironmentInstalled(dir) == isEnvironmentInstalledOn(envFs, dir)

\* No call of isolateComponent is in flight.
envIdle == envPc \in {"idle", "returned", "failed", "destroyed"}

\* isolateComponent throws at the statement it stands at.
envThrows(e) ==
    /\ envPc' = "failed"
    /\ stoppedAt' = envPc
    /\ envError' = e

\* create (lines 43-46).
create ==
    /\ envIdle
    /\ envFs' = [envFs EXCEPT ![envPath].exists = TRUE]
    /\ consumer' = TRUE
    /\ UNCHANGED <<isolatorVars, envPath, envPc, envOpts, writeToPath, stoppedAt,
                   envError, isolations, markedBefore>>

\* isolateComponent is called (lines 56-62).
isolateComponent(w) ==
    /\ envIdle
    /\ isolations < MaxIsolations
    /\ isolations' = isolations + 1
    /\ envOpts' = [writeToPath |-> w]
    /\ writeToPath' = ""
    /\ stoppedAt' = "none"
    /\ envError' = "none"
    /\ markedBefore' = [d \in EnvDirs |-> isEnvironmentInstalled(d)]
    /\ envPc' = "importComponents"
    /\ UNCHANGED <<isolatorVars, envPath, consumer, envFs>>

\* importComponents with the marker written before writeAll is called.
importComponents_marks ==
    /\ envPc = "importComponents"
    /\ consumer
    /\ writeToPath' = (IF envOpts.writeToPath = "" THEN envPath ELSE envOpts.writeToPath)
    /\ envFs' = [envFs EXCEPT ![writeToPath'].exists = TRUE, ![writeToPath'].marker = TRUE]
    /\ envPc' = "writeAll"
    /\ UNCHANGED <<isolatorVars, envPath, consumer, envOpts, stoppedAt, envError,
                   isolations, markedBefore>>

\* await this.consumer.importComponents(...) and writeToPath (lines 63-70): a
\* TypeError when create was not called, the import's own error, or the
\* components.
importComponents ==
    /\ envPc = "importComponents"
    /\ \/ /\ ~consumer
          /\ envThrows("TypeError")
          /\ UNCHANGED writeToPath
       \/ /\ consumer
          /\ envThrows("ImportError")
          /\ UNCHANGED writeToPath
       \/ /\ consumer
          /\ writeToPath' = (IF envOpts.writeToPath = "" THEN envPath
                             ELSE envOpts.writeToPath)
          /\ envPc' = "writeAll"
          /\ UNCHANGED <<stoppedAt, envError>>
    /\ UNCHANGED <<isolatorVars, envPath, consumer, envFs, envOpts, isolations,
                   markedBefore>>

\* manyComponentsWriter.writeAll() is called (lines 91-92): it throws, or
\* starts to write into writeToPath.
writeAll ==
    /\ envPc = "writeAll"
    /\ \/ /\ envThrows("WriteError")
          /\ UNCHANGED envFs
       \/ /\ envFs' = [envFs EXCEPT ![writeToPath].exists = TRUE,
                                     ![writeToPath].written = "partial"]
          /\ envPc' = "writing"
          /\ UNCHANGED <<stoppedAt, envError>>
    /\ UNCHANGED <<isolatorVars, envPath, consumer, envOpts, writeToPath, isolations,
                   markedBefore>>

\* writeAll settles (line 92): it throws half way, or has written and installed
\* everything.
writeAllSettles ==
    /\ envPc = "writing"
    /\ \/ /\ envThrows("WriteError")
          /\ UNCHANGED envFs
       \/ /\ envFs' = [envFs EXCEPT ![writeToPath].written = "all"]
          /\ envPc' = "markEnvironmentAsInstalled"
          /\ UNCHANGED <<stoppedAt, envError>>
    /\ UNCHANGED <<isolatorVars, envPath, consumer, envOpts, writeToPath, isolations,
                   markedBefore>>

\* await Environment.markEnvironmentAsInstalled(writeToPath), and the return
\* (lines 93-94, 101-104): outputFile writes the file, making the directory
\* if it has to, or throws.
markEnvironmentAsInstalled ==
    /\ envPc = "markEnvironmentAsInstalled"
    /\ \/ /\ envThrows("OutputFileError")
          /\ UNCHANGED envFs
       \/ /\ envFs' = [envFs EXCEPT ![writeToPath].exists = TRUE,
                                     ![writeToPath].marker = TRUE]
          /\ envPc' = "returned"
          /\ UNCHANGED <<stoppedAt, envError>>
    /\ UNCHANGED <<isolatorVars, envPath, consumer, envOpts, writeToPath, isolations,
                   markedBefore>>

\* The process is interrupted while isolateComponent is in flight.
interrupt ==
    /\ envPc \in {"importComponents", "writeAll", "writing", "markEnvironmentAsInstalled"}
    /\ envPc' = "interrupted"
    /\ stoppedAt' = envPc
    /\ UNCHANGED <<isolatorVars, envPath, consumer, envFs, envOpts, writeToPath,
                   envError, isolations, markedBefore>>

\* A new process constructs the Environment again on the directory it was
\* given (lines 37-41).
restart ==
    /\ envPc = "interrupted"
    /\ envPath # GeneratedPath
    /\ consumer' = FALSE
    /\ envPc' = "idle"
    /\ UNCHANGED <<isolatorVars, envPath, envFs, envOpts, writeToPath, stoppedAt,
                   envError, isolations, markedBefore>>

\* destroy (lines 115-119): fs.remove(this.path).
destroy ==
    /\ envIdle
    /\ envFs' = [envFs EXCEPT ![envPath] = NoEnvDir]
    /\ envPc' = "destroyed"
    /\ UNCHANGED <<isolatorVars, envPath, consumer, envOpts, writeToPath, stoppedAt,
                   envError, isolations, markedBefore>>

\* destroyIfExist (lines 121-128).
destroyIfExist ==
    /\ envIdle
    /\ IF envFs[envPath].exists
         THEN /\ envFs' = [envFs EXCEPT ![envPath] = NoEnvDir]
              /\ envPc' = "destroyed"
         ELSE UNCHANGED <<envFs, envPc>>
    /\ UNCHANGED <<isolatorVars, envPath, consumer, envOpts, writeToPath, stoppedAt,
                   envError, isolations, markedBefore>>

\* An Environment is constructed with a directory or without one; the
\* directories a caller names may hold an earlier environment.
InitEnv ==
    /\ InitRun
    /\ baseDir = ""
    /\ hostIds = CompIds
    /\ rootDir = NoRoot
    /\ envFs \in {f \in [EnvDirs -> EnvDirStates] : f[GeneratedPath] = NoEnvDir}
    /\ \E dir \in {"", "/given"} : EnvironmentNew(dir)

NextEnv ==
    \/ create
    \/ \E w \in {"", "/out"} : isolateComponent(w)
    \/ importComponents
    \/ writeAll
    \/ writeAllSettles
    \/ markEnvironmentAsInstalled
    \/ interrupt
    \/ restart
    \/ destroy
    \/ destroyIfExist

SpecEnv == InitEnv /\ [][NextEnv]_vars

(* ------------------------------------------------------------------ *)
(* Properties.                                                          *)
(* ------------------------------------------------------------------ *)

anyCurrent == \E j \in 1..Len(data) : data[j].currentPackageJson.defined
allCurrent ==
    /\ Len(data) = Len(capsules)
    /\ \A j \in 1..Len(data) : data[j].currentPackageJson.defined

\* C1: in a run with install requested that takes no early return, the
\* phases follow one another without overlap: all previous manifests are
\* snapshotted before any component is written, all writes are over before a
\* current manifest is computed, all current manifests are computed before the
\* install, the install is over before the link starts, every linking step is
\* over before a manifest is rewritten, and the Network is returned only after
\* the rewrite of every manifest.
C1_PhaseOrder ==
    (opts.installPackages /\ returnedAt \notin {"getExistingAsIs", "skipIfExists"}) =>
        /\ calls.write > 0 => Len(data) = Len(capsules)
        /\ anyCurrent => (calls.write = Len(components)
                          /\ pc # "writeComponentsInCapsules")
        /\ calls.install > 0 => allCurrent
        /\ calls.link > 0 => (calls.install = 1 /\ error # "InstallError"
                              /\ rootDir.nodeModules)
        /\ calls.symlinkRoot > 0 => (calls.link = 1 /\ error # "LinkError")
        /\ calls.symlinkDependencies > 0 => calls.symlinkRoot = 1
        /\ calls.symlinkBitBin > 0 => calls.symlinkDependencies = 1
        /\ calls.rewrite > 0 => (calls.symlinkBitBin = 1 /\ calls.install = 1
                                 /\ calls.link = 1)
        /\ network.returned =>
              (calls.rewrite = Len(capsules) /\ returnedAt = "end"
               /\ \A j \in 1..Len(data) :
                     disk[data[j].capsule].manifest
                        = JsonFile(data[j].currentPackageJson.json))

C1_Witness ==
    /\ pc = "done"
    /\ opts.installPackages
    /\ returnedAt = "end"
    /\ Len(capsules) = 3
    /\ calls.write = 3
    /\ calls.install = 1
    /\ calls.symlinkBitBin = 1
    /\ calls.rewrite = 3

\* The call before this one, when there was one.
lastCall == history[Len(history)]

\* This call repeats a call that returned a Network, with skipIfExists set.
repeatsSkipIfExists ==
    /\ history # <<>>
    /\ lastCall.network.returned
    /\ lastCall.seeders = seeders
    /\ lastCall.opts = opts
    /\ opts.skipIfExists

\* The call made no component write, no install, no link and no rewrite.
noWork ==
    /\ calls.write = 0
    /\ calls.install = 0
    /\ calls.link = 0
    /\ calls.symlinkRoot = 0
    /\ calls.symlinkDependencies = 0
    /\ calls.symlinkBitBin = 0
    /\ calls.rewrite = 0

\* C2 as stated: the second of two calls with identical seeds and options and
\* skipIfExists set makes no write, install, link or rewrite and returns the
\* capsule paths of the first, whatever the other options are.
C2_Original ==
    repeatsSkipIfExists =>
        /\ noWork
        /\ network.returned => network.capsules = lastCall.network.capsules

\* C2, amended: the same, for calls that set neither emptyRootDir nor alwaysNew;
\* the second call ends and returns a Network over the same capsule paths.
C2_SkipIfExistsIdempotent ==
    (repeatsSkipIfExists /\ ~opts.emptyRootDir /\ ~opts.alwaysNew) =>
        /\ noWork
        /\ disk = before.disk
        /\ pc \notin {"failed", "getCapsulesPreviousPackageJson"}
        /\ network.returned => network.capsules = lastCall.network.capsules

C2_Witness ==
    /\ repeatsSkipIfExists
    /\ ~opts.emptyRootDir /\ ~opts.alwaysNew /\ ~opts.getExistingAsIs
    /\ lastCall.network.capsules = capsules
    /\ Len(capsules) = 3
    /\ pc = "done"
    /\ returnedAt = "skipIfExists"
    /\ \E p \in DOMAIN disk : disk[p].src # "old" /\ disk[p].src # ""

\* What the run may do to the disk when it only creates missing directories:
\* every directory, manifest and source tree of before is as it was.
onlyDirsCreated ==
    /\ \A p \in DOMAIN before.disk : p \in DOMAIN disk /\ disk[p] = before.disk[p]
    /\ \A p \in DOMAIN disk \ DOMAIN before.disk : disk[p] = EmptyDir
    /\ rootDir.stray = before.rootDir.stray
    /\ rootDir.nodeModules = before.rootDir.nodeModules
    /\ rootDir.links = before.rootDir.links

\* C3: in a run with getExistingAsIs set, whatever the other options, no
\* manifest or source file on disk is changed or removed, the only effect on
\* the disk is the creation of missing capsule directories, and write,
\* install and link are never called.
C3_GetExistingAsIsFrame ==
    (opts.getExistingAsIs /\ pc # "idle") => (onlyDirsCreated /\ noWork)

\* C4 as stated: when a run with emptyRootDir ends, nothing that was under the
\* isolation root before the run is left.
C4_Original ==
    (opts.emptyRootDir /\ pc \in {"done", "failed"}) =>
        /\ ~rootDir.stray
        /\ \A p \in DOMAIN disk : disk[p].src # "old"

\* What is under the root was produced by this run.
producedByRun ==
    /\ ~rootDir.stray
    /\ DOMAIN disk \subseteq Range(capsules)
    /\ \A p \in DOMAIN disk :
          /\ disk[p].src \in {"", p[1]}
          /\ disk[p].manifest.kind # "corrupt"
          /\ disk[p].manifest.kind = "json" => calls.write > 0
          /\ disk[p].depLinks => p \in linkArgs.dependencies
          /\ disk[p].bitBin => p \in linkArgs.bitBin
    /\ rootDir.nodeModules => calls.install = 1
    /\ rootDir.links # {} => calls.symlinkRoot = 1

\* C4, amended: in a run with emptyRootDir whose components were resolved, the
\* root is emptied once, before any capsule directory is created, and from
\* then on, until the run ends, everything under the root was produced by the run.
C4_EmptyRootDir ==
    (opts.emptyRootDir /\ pc # "idle" /\ error # "NotFound") =>
        /\ calls.mkdir > 0 => calls.wipe = 1
        /\ pc \in {"done", "failed"} => calls.wipe = 1
        /\ calls.wipe = 1 => producedByRun

C4_Witness ==
    /\ opts.emptyRootDir
    /\ pc = "done"
    /\ returnedAt = "end"
    /\ before.rootDir.stray
    /\ \E p \in DOMAIN before.disk : before.disk[p].src = "old"
    /\ Len(capsules) >= 2
    /\ ~rootDir.stray

\* The position of component c in the node list of the successors subgraph.
nodeIndex(c) == CHOOSE i \in 1..Len(successorsSubgraph(seeders)) :
                    successorsSubgraph(seeders)[i] = c

\* C5: without seedersOnly, the components createGraph returns are exactly the
\* nodes of the successors subgraph the host has, each once, in the order of
\* the subgraph's node list, whatever the order the hasId checks completed in.
C5_GraphFilter ==
    (~opts.seedersOnly /\ pc \notin {"idle", "createGraph", "hasId"}) =>
        /\ Range(components) = Range(successorsSubgraph(seeders)) \cap hostIds
        /\ \A i, j \in 1..Len(components) :
              i < j => nodeIndex(components[i]) < nodeIndex(components[j])

C5_Witness ==
    /\ ~opts.seedersOnly
    /\ pc = "createCapsules"
    /\ compsAndDeps = <<"A", "B", "C">>
    /\ components = <<"A", "C">>

\* C6: with seedersOnly set and a seed the host cannot resolve, the call fails
\* with NotFound, returns no Network, and creates no capsule, wipes nothing,
\* writes, installs and links nothing: the disk is as it was.
C6_SeedersOnlyNotFound ==
    (opts.seedersOnly /\ ~(Range(seeders) \subseteq hostIds)
        /\ pc \notin {"idle", "getMany"}) =>
        /\ pc = "failed"
        /\ error = "NotFound"
        /\ ~network.returned
        /\ capsules = <<>>
        /\ calls = NoCalls
        /\ disk = before.disk
        /\ rootDir = before.rootDir

C6_Witness ==
    /\ opts.seedersOnly
    /\ opts.emptyRootDir
    /\ seeders = <<"B", "A">>
    /\ hostIds = {"B", "C"}
    /\ pc = "failed"
    /\ error = "NotFound"
    /\ DOMAIN disk # {}

\* The dependency-bearing sections of two manifests differ.
sectionsDiffer(previous, current) ==
    \/ previous.dependencies # current.dependencies
    \/ previous.devDependencies # current.devDependencies
    \/ previous.peerDependencies # current.peerDependencies

\* C7: the diff flags a capsule as changed when it has no previous manifest,
\* and otherwise exactly when a dependency-bearing section of the previous
\* manifest differs from that of the current one; a difference in any other
\* field alone does not flag it.
C7_ManifestDiff ==
    calls.link > 0 =>
        \A j \in 1..Len(data) :
            data[j].capsule \in modified <=>
                \/ data[j].previousPackageJson.isNull
                \/ sectionsDiffer(data[j].previousPackageJson.json,
                                  data[j].currentPackageJson.json)

C7_Witness ==
    /\ calls.link > 0
    /\ \E j \in 1..Len(data) :
          /\ ~data[j].previousPackageJson.isNull
          /\ data[j].previousPackageJson.json # data[j].currentPackageJson.json
          /\ data[j].capsule \notin modified
    /\ \E j \in 1..Len(data) :
          /\ ~data[j].previousPackageJson.isNull
          /\ data[j].capsule \in modified

\* The capsules of the run the diff does not flag.
unchangedCapsules ==
    {data[j].capsule : j \in {k \in 1..Len(data) :
        /\ data[k].currentPackageJson.defined
        /\ ~data[k].previousPackageJson.isNull
        /\ ~sectionsDiffer(data[k].previousPackageJson.json,
                           data[k].currentPackageJson.json)}}

\* C8 as stated: a capsule whose dependency sections are unchanged is handed
\* to none of the four linking steps.
C8_Original ==
    (linkArgs.linker \cup linkArgs.root \cup linkArgs.dependencies \cup linkArgs.bitBin)
        \cap unchangedCapsules = {}

\* C8, amended: a capsule whose dependency sections are unchanged is handed
\* neither to the dependency symlink step nor to the tool-runtime symlink
\* step, which get exactly the changed capsules; the linker's link and the
\* root symlink step get every capsule of the run.
C8_OnlyChangedRelinked ==
    /\ (linkArgs.dependencies \cup linkArgs.bitBin) \cap unchangedCapsules = {}
    /\ calls.symlinkDependencies > 0 =>
          linkArgs.dependencies = Range(capsules) \ unchangedCapsules
    /\ calls.symlinkBitBin > 0 => linkArgs.bitBin = Range(capsules) \ unchangedCapsules
    /\ calls.link > 0 => linkArgs.linker = Range(capsules)
    /\ calls.symlinkRoot > 0 => linkArgs.root = Range(capsules)

C8_Witness ==
    /\ calls.symlinkBitBin = 1
    /\ unchangedCapsules # {}
    /\ linkArgs.dependencies # {}
    /\ linkArgs.bitBin # {}
    /\ unchangedCapsules \subseteq linkArgs.linker

\* The entries of the component's own dependencies in its manifest.
ownDependencies(c) ==
    getBitDependencies(BitDependencies[c]) \cup ExternalPackages[c]

\* C9: after a full run, the manifest of every capsule holds the component's own
\* dependencies and every entry the installer added to it during the run.
C9_ManifestKeepsInstalled ==
    (pc = "done" /\ returnedAt = "end") =>
        \A i \in 1..Len(capsules) :
            /\ ownDependencies(components[i])
                  \subseteq disk[capsules[i]].manifest.json.dependencies.entries
            /\ capsules[i] \in DOMAIN installed =>
                  installed[capsules[i]]
                      \subseteq disk[capsules[i]].manifest.json.dependencies.entries

\* C10: when the install or the link throws, the run has failed: the collaborator
\* was called once, no later phase has run, and no Network is returned.
C10_InstallLinkFailure ==
    /\ error = "InstallError" =>
          /\ pc = "failed"
          /\ calls.install = 1
          /\ calls.link = 0
          /\ calls.symlinkRoot = 0
          /\ calls.symlinkDependencies = 0
          /\ calls.symlinkBitBin = 0
          /\ calls.rewrite = 0
          /\ ~network.returned
    /\ error = "LinkError" =>
          /\ pc = "failed"
          /\ calls.install = 1
          /\ calls.link = 1
          /\ calls.symlinkRoot = 0
          /\ calls.symlinkDependencies = 0
          /\ calls.symlinkBitBin = 0
          /\ calls.rewrite = 0
          /\ ~network.returned

C10_Witness ==
    /\ error = "LinkError"
    /\ pc = "failed"
    /\ Len(capsules) >= 2
    /\ calls.write = Len(capsules)

\* C11: list returns the empty capsule list, and no error, when the isolation
\* root of the workspace does not exist; when it exists and can be read, it
\* returns one full path per entry of the root; every error of the directory
\* read other than ENOENT reaches the caller and nothing is returned.
C11_List ==
    listResult.called =>
        LET folder == getCapsulesRootDir(listResult.workspace)
            exists == folder = isolationRoot /\ rootDir.exists
        IN  /\ ~exists => listResult.error = "none" /\ listResult.capsules = {}
            /\ exists /\ listResult.readdir = "none" =>
                  /\ listResult.error = "none"
                  /\ listResult.capsules = {join(folder, c) : c \in Entries}
                  /\ Cardinality(listResult.capsules) = Cardinality(Entries)
            /\ listResult.readdir \notin {"none", "ENOENT"} =>
                  /\ listResult.error = listResult.readdir
                  /\ listResult.capsules = {}

\* list threw EACCES after a run that left capsules, a stray file and node_modules.
C11_Witness ==
    /\ listResult.called
    /\ listResult.error = "EACCES"
    /\ rootDir.exists /\ rootDir.stray /\ rootDir.nodeModules
    /\ pc = "done"

\* The components the Component Host confirmed for the run: the seeders that
\* getMany resolved, or the nodes of the successors subgraph the host has.
confirmedByHost ==
    IF opts.seedersOnly THEN Range(seeders) \cap hostIds
    ELSE SuccessorsOf(Range(seeders)) \cap hostIds

\* C12: the Network of every successful run, seedersOnly or not, early exit or
\* not, holds exactly one capsule per component the Component Host confirmed
\* and no capsule of a component the host does not have.
C12_OneCapsulePerComponent ==
    network.returned =>
        LET of == {network.capsules[i][1] : i \in 1..Len(network.capsules)}
        IN  /\ of = confirmedByHost
            /\ Len(network.capsules) = Cardinality(confirmedByHost)
            /\ \A i, j \in 1..Len(network.capsules) :
                   network.capsules[i] = network.capsules[j] => i = j
            /\ of \subseteq hostIds

\* A graph run that left early through skipIfExists and whose subgraph had a
\* node the host does not have.
C12_Witness ==
    /\ network.returned
    /\ ~opts.seedersOnly
    /\ returnedAt = "skipIfExists"
    /\ ~(SuccessorsOf(Range(seeders)) \subseteq hostIds)
    /\ Len(network.capsules) = 2

\* The step removes something from the isolation root: a capsule directory, a
\* manifest, sources or links of a capsule, or an entry of the root itself.
removes ==
    \/ \E p \in DOMAIN disk : p \notin DOMAIN disk'
    \/ \E p \in DOMAIN disk \cap DOMAIN disk' :
          \/ disk[p].manifest.kind # "none" /\ disk'[p].manifest.kind = "none"
          \/ disk[p].src # "" /\ disk'[p].src = ""
          \/ disk[p].depLinks /\ ~disk'[p].depLinks
          \/ disk[p].bitBin /\ ~disk'[p].bitBin
    \/ rootDir.exists /\ ~rootDir'.exists
    \/ rootDir.stray /\ ~rootDir'.stray
    \/ rootDir.nodeModules /\ ~rootDir'.nodeModules
    \/ ~(rootDir.links \subseteq rootDir'.links)

\* C13: a run wipes the isolation root at most once, only when the caller set
\* emptyRootDir and only before the first capsule is created; no other step,
\* during a run, after it or in a later run, removes a capsule directory or
\* anything in it.
C13_WipeOnlyOnRequest ==
    [][/\ calls'.wipe <= 1
       /\ (removes \/ calls'.wipe > calls.wipe) =>
              /\ pc = "emptyRootDir"
              /\ opts.emptyRootDir
              /\ calls.wipe = 0
              /\ calls.mkdir = 0
              /\ capsules = <<>>]_vars

\* The repeated call wiped a root that held the capsules of the call before.
C13_Witness ==
    /\ Len(history) = 1
    /\ pc = "done"
    /\ calls.wipe = 1
    /\ before.rootDir.nodeModules
    /\ DOMAIN before.disk # {}
    /\ ~rootDir.stray

\* C14: the isolation root depends on the base directory alone: the root the
\* returned Network records is the directory the capsules of the run were
\* created in, it is the root of the caller's base directory (host.path when
\* the caller gave none), and a repeated call records the same root.
C14_RootOfBaseDir ==
    network.returned =>
        /\ network.root = capsulesDir
        /\ network.root = isolationRoot
        /\ \A k \in 1..Len(history) :
               history[k].network.returned => history[k].network.root = network.root

\* Two calls returned, the caller's opts having come without a base directory.
C14_Witness ==
    /\ network.returned
    /\ Len(history) = 1
    /\ history[1].network.returned
    /\ baseDir = hostPath
    /\ network.root = getCapsulesRootDir(hostPath)
    /\ Len(network.capsules) > 0

\* C15: the snapshot never fails the run. No step of the snapshot phase throws;
\* the snapshot yields one entry per capsule, in the capsules' order, whose
\* previous manifest is null exactly when the capsule's manifest file is
\* missing or cannot be parsed; and the diff takes every capsule with a null
\* previous manifest as changed.
C15_SnapshotNeverFails ==
    [][/\ pc = "getCapsulesPreviousPackageJson" =>
              /\ pc' # "failed"
              /\ error' = "none"
       /\ pc = "getCapsulesPreviousPackageJson" /\ pc' # pc =>
              /\ Len(data') = Len(capsules)
              /\ \A j \in 1..Len(capsules) :
                    /\ data'[j].capsule = capsules[j]
                    /\ data'[j].previousPackageJson.isNull
                          <=> disk[capsules[j]].manifest.kind \in {"none", "corrupt"}
       /\ pc = "updateWithCurrentPackageJsonData" /\ pc' \notin {pc, "failed"} =>
              \A j \in 1..Len(data') :
                  data'[j].previousPackageJson.isNull
                      => wereDependenciesInPackageJsonChanged(data'[j])
       /\ pc = "linkInCapsules" /\ pc' # pc =>
              \A j \in 1..Len(data) :
                  data[j].previousPackageJson.isNull => data[j].capsule \in modified'
      ]_vars

\* A run went on to link after the snapshot met a manifest it could not parse.
C15_Witness ==
    /\ pc = "symlinkOnCapsuleRoot"
    /\ ~opts.emptyRootDir
    /\ Len(data) = 3
    /\ \A i \in 1..Len(data) :
          /\ data[i].capsule \in DOMAIN before.disk
          /\ before.disk[data[i].capsule].manifest.kind = "corrupt"
          /\ data[i].previousPackageJson.isNull
          /\ data[i].capsule \in modified

\* C16 as stated: the final rewrite writes the manifest of no capsule the diff
\* flagged as unchanged.
C16_Original == rewritten \cap unchangedCapsules = {}

\* C16, amended: the final rewrite is applied to every capsule of the run,
\* flagged as changed by the diff or not: each capsule's manifest file is
\* written once, with the capsule's current manifest.
C16_RewriteEveryCapsule ==
    /\ returnedAt = "end" =>
          /\ rewritten = Range(capsules)
          /\ calls.rewrite = Len(capsules)
          /\ \A j \in 1..Len(data) :
                disk[data[j].capsule].manifest = JsonFile(data[j].currentPackageJson.json)
    /\ returnedAt # "end" => rewritten = {} /\ calls.rewrite = 0

\* A run with install rewrote the manifests of a capsule the diff flagged and
\* of one it did not.
C16_Witness ==
    /\ pc = "done"
    /\ returnedAt = "end"
    /\ opts.installPackages
    /\ unchangedCapsules # {}
    /\ modified # {}
    /\ unchangedCapsules \cup modified \subseteq rewritten

\* C17: a run that installs calls the installer's install once for the whole
\* run, not once per capsule: with the isolation root as its directory, with a
\* component map that holds every capsule of the run under its component, and
\* with exactly the peer entries of the workspace policy.
C17_OneInstallForRoot ==
    /\ calls.install <= 1
    /\ calls.install = 0 => installArgs = NoInstallArgs
    /\ calls.install = 1 =>
          /\ opts.installPackages
          /\ installArgs.dir = capsulesDir
          /\ installArgs.dir = isolationRoot
          /\ installArgs.componentMap =
                {<<components[i], capsules[i]>> : i \in 1..Len(capsules)}
          /\ {t[2] : t \in installArgs.componentMap} = Range(capsules)
          /\ installArgs.policy =
                {e \in getWorkspacePolicy : e.lifecycleType = "peer"}
    /\ opts.installPackages /\ (returnedAt = "end" \/ calls.link > 0) => calls.install = 1

\* A run over three capsules installed and went on to its end; the workspace
\* policy has entries that are no peers.
C17_Witness ==
    /\ pc = "done"
    /\ returnedAt = "end"
    /\ calls.install = 1
    /\ Len(capsules) = 3
    /\ Cardinality(installArgs.componentMap) = 3
    /\ installArgs.policy # getWorkspacePolicy
    /\ installArgs.policy # {}

\* The components the capsule list has no capsule for.
withoutCapsule == {i \in 1..Len(components) : getCapsule(components[i]) = {}}

\* C18: in the write phase a component the capsule list has no capsule for is
\* skipped. No step of the phase throws; when the phase ends, every component
\* with a capsule has its files and manifest in its capsule, one write was
\* made per such component, and the directory a skipped component would have
\* is as it was before.
C18_WriteSkipsMissingCapsule ==
    [][/\ pc = "writeComponentsInCapsules" =>
              /\ pc' \in {"writeComponentsInCapsules", "updateWithCurrentPackageJsonData"}
              /\ error' = "none"
       /\ pc = "writeComponentsInCapsules" /\ pc' # pc =>
              /\ calls.write = Len(components) - Cardinality(withoutCapsule)
              /\ DOMAIN disk = DOMAIN before.disk
              /\ \A i \in 1..Len(components) :
                    LET p == CapsulePath(components[i], 0)
                    IN  IF i \in withoutCapsule
                        THEN disk[p] = before.disk[p]
                        ELSE /\ disk[p].src = components[i]
                             /\ disk[p].manifest =
                                   JsonFile(WrittenPackageJson(components[i],
                                                               Range(components)))
      ]_vars

\* The write phase ended with one component skipped and two written.
C18_Witness ==
    /\ pc = "updateWithCurrentPackageJsonData"
    /\ Len(components) = 3
    /\ Cardinality(withoutCapsule) = 1
    /\ calls.write = 2
    /\ error = "none"

\* C20: when updateWithCurrentPackageJsonData finds no snapshot entry for a
\* capsule, the run fails with an error: no install, no link and no final
\* rewrite is made and no Network is returned.
C20_MissingEntryAborts ==
    noData # {} =>
        /\ pc \in {"writeComponentsInCapsules", "updateWithCurrentPackageJsonData",
                    "failed"}
        /\ pc = "failed" => error = "Error"
        /\ pc # "failed" => error = "none"
        /\ calls.install = 0
        /\ calls.link = 0
        /\ calls.rewrite = 0
        /\ rewritten = {}
        /\ ~network.returned

\* The run failed at the second of three capsules, whose entry was missing,
\* after all three components were written.
C20_Witness ==
    /\ pc = "failed"
    /\ error = "Error"
    /\ Len(capsules) = 3
    /\ noData = {2}
    /\ calls.write = 3
    /\ data[1].currentPackageJson.defined
    /\ ~data[2].currentPackageJson.defined

\* The disk after the creation tasks of the capsules in D ran one after
\* another, in the capsules' order, on disk d.
RECURSIVE createdInTurn(_, _, _)
createdInTurn(d, D, n) ==
    IF n = 0 THEN d
    ELSE LET sofar == createdInTurn(d, D, n - 1)
         IN  IF n \in D THEN EnsureDir(sofar, capsules[n]) ELSE sofar

\* The disk after the write tasks of the components in D ran one after
\* another, in the components' order, on disk d.
RECURSIVE writtenInTurn(_, _, _)
writtenInTurn(d, D, n) ==
    IF n = 0 THEN d
    ELSE LET sofar == writtenInTurn(d, D, n - 1)
         IN  IF n \in D /\ getCapsule(components[n]) # {}
             THEN persistAllToCapsule(sofar, capsules[First(getCapsule(components[n]))],
                                      components[n], Range(components))
             ELSE sofar

\* The disk the capsule creation of the run starts on, and the disk it leaves.
creationStart == IF opts.emptyRootDir THEN EmptyDisk ELSE before.disk
creationEnd == createdInTurn(creationStart, 1..Len(capsules), Len(capsules))

\* The snapshot of capsule p taken on disk d.
previousOn(d, p) ==
    IF d[p].manifest.kind = "json" THEN ParsedJson(d[p].manifest.json) ELSE NullJson

\* C19: the tasks of the creation, snapshot and write batches touch their own
\* capsule's directory only. Whatever the order in which the tasks of a batch
\* settle, the disk after any of them is the disk the settled tasks leave when
\* run one after another, each snapshot is that of the task's own capsule, and
\* the data of the batch is the data of the one-after-another run.
C19_BatchesAsInTurn ==
    /\ pc = "capsuleStart" =>
          disk = createdInTurn(creationStart, DOMAIN results, Len(capsules))
    /\ pc = "getCapsulesPreviousPackageJson" =>
          /\ disk = creationEnd
          /\ \A i \in DOMAIN results : results[i] = previousOn(creationEnd, capsules[i])
    /\ pc = "writeComponentsInCapsules" =>
          /\ disk = writtenInTurn(creationEnd, DOMAIN results, Len(components))
          /\ data = [i \in 1..Len(capsules) |->
                        [capsule |-> capsules[i], component |-> components[i],
                         previousPackageJson |-> previousOn(creationEnd, capsules[i]),
                         currentPackageJson |-> Undefined]]
    /\ pc = "updateWithCurrentPackageJsonData" =>
          disk = writtenInTurn(creationEnd, 1..Len(components), Len(components))

\* Of three write tasks over capsules of an earlier run, the last has settled
\* and the first two have not.
C19_Witness ==
    /\ pc = "writeComponentsInCapsules"
    /\ Len(components) = 3
    /\ DOMAIN results = {3}
    /\ DOMAIN before.disk # {}
    /\ ~opts.emptyRootDir
    /\ disk[capsules[3]].src = components[3]
    /\ disk[capsules[1]] = before.disk[capsules[1]]

\* Link is invoked only after the install of the same run was invoked and
\* completed; without installPackages neither is invoked.
installLinkGated ==
    /\ calls.link > 0 =>
          /\ opts.installPackages
          /\ calls.install = 1
          /\ error # "InstallError"
          /\ rootDir.nodeModules
          /\ installArgs # NoInstallArgs
    /\ calls.symlinkRoot + calls.symlinkDependencies + calls.symlinkBitBin > 0 =>
          calls.link = 1
    /\ ~opts.installPackages =>
          /\ calls.install = 0
          /\ calls.link = 0
          /\ linkArgs = NoLinkArgs

\* Every capsule's manifest on disk is the current manifest computed for it,
\* written by the final rewrite.
allRewritten ==
    /\ rewritten = Range(capsules)
    /\ Len(data) = Len(capsules)
    /\ \A j \in 1..Len(data) :
          /\ data[j].currentPackageJson.defined
          /\ disk[data[j].capsule].manifest = JsonFile(data[j].currentPackageJson.json)

\* C21 as stated: install and link are gated together, and whenever a run
\* without installPackages returns a Network, every capsule's manifest has been
\* rewritten with its current manifest.
C21_Original ==
    /\ installLinkGated
    /\ ~opts.installPackages /\ network.returned => allRewritten

\* C21, amended: install and link are gated together in every run; a run
\* without installPackages that does not leave early through getExistingAsIs
\* or skipIfExists rewrites every capsule's manifest with its current manifest
\* before the Network is returned, and one that leaves early rewrites none.
C21_InstallLinkGated ==
    /\ installLinkGated
    /\ ~opts.installPackages /\ network.returned =>
          IF returnedAt = "end" THEN allRewritten
          ELSE /\ returnedAt \in {"getExistingAsIs", "skipIfExists"}
               /\ rewritten = {}
               /\ calls.rewrite = 0

\* A run without installPackages went through to its end over three capsules.
C21_Witness ==
    /\ pc = "done"
    /\ ~opts.installPackages
    /\ returnedAt = "end"
    /\ Len(capsules) = 3
    /\ calls.install = 0
    /\ calls.link = 0
    /\ allRewritten

\* A capsule of the run had no manifest when the skipIfExists test was made.
lackedManifest ==
    \E i \in 1..Len(capsules) :
        \/ capsules[i] \notin DOMAIN creationStart
        \/ creationStart[capsules[i]].manifest.kind = "none"

\* A capsule of the run had a manifest when the skipIfExists test was made.
hadManifest ==
    \E i \in 1..Len(capsules) :
        /\ capsules[i] \in DOMAIN creationStart
        /\ creationStart[capsules[i]].manifest.kind # "none"

\* The run that returned went through the whole pipeline, over every capsule.
fullPipeline ==
    /\ returnedAt = "end"
    /\ calls.write = Len(components)
    /\ allRewritten
    /\ opts.installPackages =>
          /\ calls.install = 1
          /\ calls.link = 1
          /\ linkArgs.linker = Range(capsules)

\* With emptyRootDir set and components to isolate, the skipIfExists return is
\* not taken.
wipeBeatsSkip ==
    opts.skipIfExists /\ opts.emptyRootDir /\ components # <<>> =>
        returnedAt # "skipIfExists"

\* C22 as stated: with skipIfExists set, a run one of whose capsules lacked a
\* manifest does not take the short-circuit, and when it returns it has gone
\* through the whole pipeline over all its capsules; with emptyRootDir also
\* set the short-circuit is never taken.
C22_Original ==
    /\ opts.skipIfExists /\ lackedManifest =>
          /\ returnedAt # "skipIfExists"
          /\ pc = "done" => fullPipeline
    /\ wipeBeatsSkip

\* C22, amended: the same for runs that do not set getExistingAsIs, which
\* returns before the skipIfExists test whatever the manifests are; such a run
\* takes the short-circuit when no capsule lacked a manifest.
C22_SkipAllOrNothing ==
    /\ opts.skipIfExists /\ ~opts.getExistingAsIs /\ lackedManifest =>
          /\ returnedAt # "skipIfExists"
          /\ pc = "done" => fullPipeline
    /\ opts.skipIfExists /\ opts.getExistingAsIs /\ pc = "done" =>
          returnedAt = "getExistingAsIs"
    /\ opts.skipIfExists /\ ~opts.getExistingAsIs /\ ~lackedManifest /\ pc = "done" =>
          returnedAt = "skipIfExists"
    /\ wipeBeatsSkip

\* A skipIfExists run over two capsules that had a manifest and one that had
\* none went through the whole pipeline.
C22_Witness ==
    /\ pc = "done"
    /\ opts.skipIfExists
    /\ ~opts.getExistingAsIs /\ ~opts.emptyRootDir
    /\ Len(capsules) = 3
    /\ lackedManifest
    /\ hadManifest
    /\ fullPipeline

\* This call repeats a full run that returned a Network: same seeders, same
\* options, no wipe, no early return, no fresh directories.
repeatsFullRun ==
    /\ history # <<>>
    /\ lastCall.network.returned
    /\ lastCall.seeders = seeders
    /\ lastCall.opts = opts
    /\ ~opts.emptyRootDir /\ ~opts.skipIfExists /\ ~opts.getExistingAsIs
    /\ ~opts.alwaysNew

\* C23: a full run that repeats a completed full run over the same components
\* flags no capsule as changed: every previous manifest it snapshots is there
\* and has the dependency sections of the current manifest it computes, so the
\* dependency symlink step and the tool-runtime symlink step get no capsule.
C23_SecondRunFlagsNothing ==
    repeatsFullRun =>
        /\ \A j \in 1..Len(data) :
              /\ ~data[j].previousPackageJson.isNull
              /\ data[j].currentPackageJson.defined =>
                    /\ ~sectionsDiffer(data[j].previousPackageJson.json,
                                       data[j].currentPackageJson.json)
                    /\ ~wereDependenciesInPackageJsonChanged(data[j])
        /\ modified = {}
        /\ linkArgs.dependencies = {}
        /\ linkArgs.bitBin = {}
        /\ network.returned => network.capsules = lastCall.network.capsules

\* The repeated full run installed, linked and ended over three capsules
\* with dependencies among them, with nothing handed to the two symlink steps.
C23_Witness ==
    /\ repeatsFullRun
    /\ pc = "done"
    /\ opts.installPackages
    /\ Len(capsules) = 3
    /\ calls.symlinkDependencies = 1
    /\ calls.symlinkBitBin = 1
    /\ linkArgs.linker = Range(capsules)
    /\ linkArgs.dependencies = {}
    /\ calls.write = 3

\* C24: in the legacy Environment the marker file is written only by
\* markEnvironmentAsInstalled, into writeToPath, after writeAll has completed.
\* A call of isolateComponent that throws or is interrupted before or during
\* writeAll leaves every directory installed or not as it was when the call
\* was made, so one that was not installed remains so; after isolateComponent
\* has returned the directory is installed, and an installed directory stays
\* installed until destroy removes it.
C24_MarkerAfterWriteAll ==
    [][/\ \A d \in EnvDirs :
            ~isEnvironmentInstalled(d) /\ isEnvironmentInstalled(d)' =>
                /\ envPc = "markEnvironmentAsInstalled"
                /\ envPc' = "returned"
                /\ d = writeToPath
                /\ envFs[d].written = "all"
       /\ (envPc' \in {"failed", "interrupted"}
           /\ stoppedAt' \in {"importComponents", "writeAll", "writing"}) =>
                \A d \in EnvDirs : isEnvironmentInstalled(d)' = markedBefore'[d]
       /\ envPc' = "returned" => isEnvironmentInstalled(writeToPath)'
       /\ \A d \in EnvDirs :
            isEnvironmentInstalled(d) /\ ~isEnvironmentInstalled(d)' =>
                /\ envPc' = "destroyed"
                /\ d = envPath
      ]_vars

\* After a call that returned and marked the environment's own directory, a
\* second call into another directory threw while writeAll was writing: that
\* directory is not installed, the first still is.
C24_Witness ==
    /\ envPc = "failed"
    /\ stoppedAt = "writing"
    /\ isolations = 2
    /\ writeToPath = "/out"
    /\ envFs["/out"].written = "partial"
    /\ ~isEnvironmentInstalled("/out")
    /\ ~markedBefore["/out"]
    /\ markedBefore[envPath]
    /\ isEnvironmentInstalled(envPath)
    /\ envPath = GeneratedPath

====
